---------------------------- MODULE Spec2Model ----------------------------
(***************************************************************************)
(* Room / connection lifecycle of the cheetah.ninja chat server.           *)
(*                                                                         *)
(* Every accepted WebSocket connection runs handleWebSocket in its own     *)
(* goroutine.  The handler joins a Room through the process-wide registry  *)
(* (rooms, guarded by roomsMutex), starts a heartbeat goroutine, runs a    *)
(* receive loop that filters and broadcasts messages under the Room's own  *)
(* Mutex, and tears the client down in a deferred function.                *)
(*                                                                         *)
(* The repository holds several revisions of the handler; `variant` says   *)
(* which one a behaviour runs:                                             *)
(*   "jwt"   src/main.go:511-608          token-gated, room id from claims *)
(*   "rate"  src/unnamed/part_002:171-255 room id from the query, with the *)
(*                                        per-client rate limiter          *)
(*   "p4"    src/unnamed/part_004:177-228 room id from the query, no        *)
(*                                        heartbeat, registry delete inside *)
(*                                        the Room's critical section       *)
(***************************************************************************)
EXTENDS Integers, FiniteSets, Sequences, TLC

(***************************************************************************)
(* Bounds of the model.                                                    *)
(***************************************************************************)
NumConns == 3          \* connections accepted over the life of the process
RateConns == 2         \* the same, in the behaviours that follow the clock
MaxTicks == 2          \* advances of the wall clock
LiveConns == 2         \* connections in the behaviours checked for progress

Conns == 1..NumConns
\* The room ids of the model; "" is the empty room id of a request without
\* the `room` query parameter, "zz" a room id typed by hand, "r1" and "r2"
\* room ids made by generateID.
RoomIds == {"", "zz", "r1", "r2"}

\* generateID: hex.EncodeToString of IdBytes random bytes.
IdBytes == 16
\* What each room id looks like: its length and whether all of it is
\* hexadecimal digits.
IdShape(r) ==
    CASE r = "" -> [len |-> 0, hex |-> TRUE]
      [] r = "zz" -> [len |-> 2, hex |-> FALSE]
      [] OTHER -> [len |-> 2 * IdBytes, hex |-> TRUE]
Variants == {"jwt", "rate", "p4"}

\* A Room object on the heap.  One is referenced by the registry or by the
\* local variable `room` of a running handler; no more than this many are
\* live at once.
RoomObjs == 1..(NumConns + 1)
NoRoom == 0
NoConn == 0

(***************************************************************************)
(* Program constants.                                                      *)
(***************************************************************************)
maxMessageLength == 160
minMessageInterval == 750       \* ms
muteDuration == 10000           \* ms
ZeroTime == 0                   \* time.Time{}: IsZero(), before every reading
StartTime == 1000               \* first reading of time.Now(), ms
\* ms between two readings of time.Now()
Delays == {0, 250, 750, 10000}

VARIABLES
    variant,          \* which revision of handleWebSocket runs
    env,              \* what the peers do: how many connect, the room ids they ask for
    rooms,            \* var rooms map[string]*Room: room id -> Room object
    roomsMutex,       \* var roomsMutex sync.Mutex: its holder, or NoConn
    Clients,          \* Room.Clients of each Room object: a set of clients
    Mutex,            \* Room.Mutex of each Room object: its holder, or NoConn
    pc,               \* where each connection's handler stands
    roomID,           \* handler local roomID: the room id the connection came for
    room,             \* handler local room (a Room object)
    isEmpty,          \* teardown local isEmpty
    conn,             \* state of each connection's transport
    hb,               \* each connection's heartbeat goroutine and pingTicker
    lastMessageTime,  \* Client.lastMessageTime
    mutedUntil,       \* Client.mutedUntil
    now,              \* the latest reading of time.Now(), ms
    cur,              \* handler local formattedMsg while it broadcasts
    todo,             \* members the running `for range room.Clients` has yet to visit
    leaves,           \* how often each handler ran delete(room.Clients, client)
                      \* and delete(rooms, roomID)
    io,               \* the frames received and sent by the latest step
    crashed           \* the runtime aborted the process (fatal error)

vars == <<variant, env, rooms, roomsMutex, Clients, Mutex, pc, roomID, room, isEmpty,
          conn, hb,  lastMessageTime, mutedUntil, now, cur, todo, leaves,
          io, crashed>>

(***************************************************************************)
(* Messages and frames.                                                    *)
(* A text message is `pad` white-space characters around a body of `len`   *)
(* characters; `check` marks the body "CHECKMARK_CLICKED".                 *)
(***************************************************************************)
NoMsg == [pad |-> 0, len |-> 0, check |-> FALSE, none |-> TRUE]
Text(p, n) == [pad |-> p, len |-> n, check |-> FALSE, none |-> FALSE]
CheckmarkMsg == [pad |-> 0, len |-> 17, check |-> TRUE, none |-> FALSE]

\* The messages a peer sends in the model.
Msgs == {Text(1, 0), Text(1, maxMessageLength), Text(0, maxMessageLength + 1),
         CheckmarkMsg}

\* strings.TrimSpace
TrimSpace(m) == [m EXCEPT !.pad = 0]
\* len(msg)
MsgLen(m) == m.pad + m.len

\* What a connection request carries: the state of its auth_token cookie
\* ("query" where the handler reads none), the room id in the token's claims
\* and the room id of its `room` query parameter.
NoReq == [kind |-> "norequest", claimed |-> "", declared |-> ""]
Request(kind, claimed, declared) ==
    [kind |-> kind, claimed |-> IF kind = "missing" THEN "" ELSE claimed,
     declared |-> declared]

NoIO == [by |-> NoConn, req |-> NoReq, in |-> NoMsg, out |-> {}]

\* One websocket.Message.Send: the frame and whether the send returned nil.
\* The text of a chat frame is the name of client `from`, ": " and `body`
\* (formattedMsg); a notice or a ping has no `from` and no `body`.
Frame(to, kind, from, body, ok) ==
    [to |-> to, kind |-> kind, from |-> from, body |-> body, ok |-> ok]

\* The results a Send to connection `to` can have: an error on a connection
\* that is closed or reset, nil or a write error on an open one.
SendResults(to) == IF conn[to] = "open" THEN BOOLEAN ELSE {FALSE}

(***************************************************************************)
(* Initial state: the process has started, nothing is connected.           *)
(***************************************************************************)
InitWith(v, n, ids, ds) ==
    /\ variant = v
    /\ env = [conns |-> n, ids |-> ids, delays |-> ds]
    /\ rooms = [r \in RoomIds |-> NoRoom]
    /\ roomsMutex = NoConn
    /\ Clients = [x \in RoomObjs |-> {}]
    /\ Mutex = [x \in RoomObjs |-> NoConn]
    /\ pc = [c \in Conns |-> "idle"]
    /\ roomID = [c \in Conns |-> ""]
    /\ room = [c \in Conns |-> NoRoom]
    /\ isEmpty = [c \in Conns |-> FALSE]
    /\ conn = [c \in Conns |-> "none"]
    /\ hb = [c \in Conns |-> "off"]
    /\ lastMessageTime = [c \in Conns |-> ZeroTime]
    /\ mutedUntil = [c \in Conns |-> ZeroTime]
    /\ now = StartTime
    /\ cur = [c \in Conns |-> NoMsg]
    /\ todo = [c \in Conns |-> {}]
    /\ leaves = [c \in Conns |-> [left |-> 0, released |-> 0]]
    /\ io = NoIO
    /\ crashed = FALSE

\* The token-gated handler of src/main.go, every connection arriving.
Init == InitWith("jwt", NumConns, {"r1", "r2"}, {0})

\* The rate-limited handler of src/unnamed/part_002, followed along the clock.
InitRate == InitWith("rate", RateConns, {"r1"}, Delays)

(***************************************************************************)
(* Helpers over the heap.                                                  *)
(***************************************************************************)
\* A handler that still uses its local `room`.
Running(c) == pc[c] \notin {"idle", "join", "joining", "done"}

\* Room objects something still points to.
Live == {rooms[r] : r \in RoomIds} \cup {room[c] : c \in {d \in Conns : Running(d)}}

\* &Room{Clients: make(map[*Client]bool)}: a Room object nothing points to.
NewRoom == CHOOSE x \in RoomObjs : x \notin Live /\ \A y \in RoomObjs : y \notin Live => x <= y


\* Handler c stands at `label`; nothing runs after a fatal error.
At(c, label) == ~crashed /\ pc[c] = label

\* The variants that close a request whose room id is empty.
RejectsEmpty == variant = "p4"
\* The variants that start a heartbeat goroutine.
HasHeartbeat == variant # "p4"
\* The variants whose teardown deletes the registry entry before it unlocks
\* room.Mutex.
NestedTeardown == variant = "p4"
\* The variants that keep lastMessageTime and mutedUntil.
RateLimited == variant = "rate"
\* The variants that skip the client's "CHECKMARK_CLICKED" control message.
SkipsCheckmark == variant = "jwt"

\* The least number of advances of the clock that lead to `now`.
Ticks ==
    LET e == now - StartTime IN
    (e \div 10000) + ((e % 10000) \div 750) + (((e % 10000) % 750) \div 250)

(***************************************************************************)
(* Admission.  "jwt": the auth_token cookie must parse as a valid, unexpired *)
(* token; the room id is the one in its claims.  "rate": the room id is the *)
(* query parameter `room`; no credential is read.                          *)
(***************************************************************************)
CredKinds == {"missing", "invalid", "expired", "valid"}

\* Refuse that lets the connection through to the join.
Refuse_admit(c) ==
    /\ pc' = [pc EXCEPT ![c] = "join"]
    /\ conn' = [conn EXCEPT ![c] = "open"]
    /\ UNCHANGED roomID

\* ws.Close(); return
Refuse(c) ==
    /\ pc' = [pc EXCEPT ![c] = "refused"]
    /\ conn' = [conn EXCEPT ![c] = "down"]
    /\ UNCHANGED roomID

Admit(c, r) ==
    /\ pc' = [pc EXCEPT ![c] = "join"]
    /\ conn' = [conn EXCEPT ![c] = "open"]
    /\ roomID' = [roomID EXCEPT ![c] = r]

\* The room ids connection c may ask for.  Room ids are interchangeable: the
\* one the first connection asks for is called "r1".
Asked(c) == IF c = 1 THEN {"r1"} ELSE env.ids

\* Connect that joins the room id the request declares.
Connect_declared(c) ==
    /\ At(c, "idle")
    /\ c <= env.conns
    /\ \A d \in Conns : d < c => pc[d] # "idle"
    /\ IF variant = "jwt"
       THEN \E kind \in CredKinds, claimed \in Asked(c), declared \in Asked(c) :
               /\ IF kind = "valid" THEN Admit(c, declared) ELSE Refuse(c)
               /\ io' = [NoIO EXCEPT !.by = c, !.req = Request(kind, claimed, declared)]
       ELSE \E declared \in Asked(c) :
               /\ IF RejectsEmpty /\ declared = "" THEN Refuse(c) ELSE Admit(c, declared)
               /\ io' = [NoIO EXCEPT !.by = c, !.req = Request("query", "", declared)]
    /\ UNCHANGED <<variant, env, rooms, roomsMutex, Clients, Mutex, room, isEmpty, hb,
                   lastMessageTime, mutedUntil, now, cur, todo, leaves, crashed>>

\* A connection arrives: handleWebSocket up to the registry lock.
\* Connections are numbered in the order they arrive.
Connect(c) ==
    /\ At(c, "idle")
    /\ c <= env.conns
    /\ \A d \in Conns : d < c => pc[d] # "idle"
    /\ IF variant = "jwt"
       THEN \E kind \in CredKinds, claimed \in Asked(c), declared \in Asked(c) :
               /\ IF kind = "valid" THEN Admit(c, claimed) ELSE Refuse(c)
               /\ io' = [NoIO EXCEPT !.by = c, !.req = Request(kind, claimed, declared)]
       ELSE \E declared \in Asked(c) :
               /\ IF RejectsEmpty /\ declared = "" THEN Refuse(c) ELSE Admit(c, declared)
               /\ io' = [NoIO EXCEPT !.by = c, !.req = Request("query", "", declared)]
    /\ UNCHANGED <<variant, env, rooms, roomsMutex, Clients, Mutex, room, isEmpty, hb,  lastMessageTime, mutedUntil, now, cur, todo, leaves, crashed>>

\* roomsMutex.Lock() of the join.
JoinLock(c) ==
    /\ At(c, "join")
    /\ roomsMutex = NoConn
    /\ roomsMutex' = c
    /\ pc' = [pc EXCEPT ![c] = "joining"]
    /\ io' = NoIO
    /\ UNCHANGED <<variant, env, rooms, Clients, Mutex, roomID, room, isEmpty, conn, hb,  lastMessageTime, mutedUntil, now, cur, todo, leaves, crashed>>

\* A goroutine inside a critical section of Room x that reads or writes
\* x.Clients: the insertion of a join, which holds only roomsMutex, races
\* with it.
Accessing(x) ==
    {d \in Conns : Mutex[x] = d /\ pc[d] \in {"bc_send", "td_leave"}}

\* Lookup or creation of the Room, room.Clients[client] = true,
\* roomsMutex.Unlock(), and the start of the heartbeat goroutine.
\* JoinInsert that waits for the Room lock of the Room it found, while it
\* holds the registry lock.
JoinInsert_locked(c) ==
    /\ At(c, "joining")
    /\ rooms[roomID[c]] # NoRoom => Mutex[rooms[roomID[c]]] = NoConn
    /\ LET r == roomID[c]
           exists == rooms[r] # NoRoom
           x == IF exists THEN rooms[r] ELSE NewRoom
       IN /\ rooms' = [rooms EXCEPT ![r] = x]
          /\ Clients' = [Clients EXCEPT ![x] = IF exists THEN @ \cup {c} ELSE {c}]
          /\ room' = [room EXCEPT ![c] = x]
          /\ roomsMutex' = NoConn
          /\ pc' = [pc EXCEPT ![c] = "recv"]
          /\ hb' = [hb EXCEPT ![c] = IF HasHeartbeat THEN "run" ELSE @]
    /\ io' = NoIO
    /\ UNCHANGED <<variant, env, Mutex, roomID, isEmpty, conn, lastMessageTime, mutedUntil,
                   now, cur, leaves, todo, crashed>>

\* JoinInsert into a member set that keeps one entry per credential: the
\* newcomer takes the place of the members of its Room.
JoinInsert_replace(c) ==
    /\ At(c, "joining")
    /\ LET r == roomID[c]
           exists == rooms[r] # NoRoom
           x == IF exists THEN rooms[r] ELSE NewRoom
           racing == Accessing(x)
       IN \/ /\ rooms' = [rooms EXCEPT ![r] = x]
             /\ Clients' = [Clients EXCEPT ![x] = {c}]
             /\ room' = [room EXCEPT ![c] = x]
             /\ roomsMutex' = NoConn
             /\ pc' = [pc EXCEPT ![c] = "recv"]
             /\ hb' = [hb EXCEPT ![c] = IF HasHeartbeat THEN "run" ELSE @]
             \* an entry created during a running iteration is produced by it or skipped
             /\ \E seen \in BOOLEAN :
                   todo' = [d \in Conns |->
                              IF d \in racing /\ pc[d] = "bc_send" /\ seen
                              THEN todo[d] \cup {c} ELSE todo[d]]
             /\ UNCHANGED crashed
          \/ \* the unsynchronised map write is caught by the runtime: fatal error
             /\ racing # {}
             /\ crashed' = TRUE
             /\ UNCHANGED <<rooms, Clients, room, roomsMutex, pc, hb,  todo>>
    /\ io' = NoIO
    /\ UNCHANGED <<variant, env, Mutex, roomID, isEmpty, conn, lastMessageTime, mutedUntil,
                   now, cur, leaves>>

JoinInsert(c) ==
    /\ At(c, "joining")
    /\ LET r == roomID[c]
           exists == rooms[r] # NoRoom
           x == IF exists THEN rooms[r] ELSE NewRoom
           racing == Accessing(x)
       IN \/ /\ rooms' = [rooms EXCEPT ![r] = x]
             /\ Clients' = [Clients EXCEPT ![x] = IF exists THEN @ \cup {c} ELSE {c}]
             /\ room' = [room EXCEPT ![c] = x]
             /\ roomsMutex' = NoConn
             /\ pc' = [pc EXCEPT ![c] = "recv"]
             /\ hb' = [hb EXCEPT ![c] = IF HasHeartbeat THEN "run" ELSE @]
             \* an entry created during a running iteration is produced by it or skipped
             /\ \E seen \in BOOLEAN :
                   todo' = [d \in Conns |->
                              IF d \in racing /\ pc[d] = "bc_send" /\ seen
                              THEN todo[d] \cup {c} ELSE todo[d]]
             /\ UNCHANGED crashed
          \/ \* the unsynchronised map write is caught by the runtime: fatal error
             /\ racing # {}
             /\ crashed' = TRUE
             /\ UNCHANGED <<rooms, Clients, room, roomsMutex, pc, hb,  todo>>
    /\ io' = NoIO
    /\ UNCHANGED <<variant, env, Mutex, roomID, isEmpty, conn, lastMessageTime, mutedUntil,
                   now, cur, leaves>>

(***************************************************************************)
(* The receive loop.                                                       *)
(***************************************************************************)
\* websocket.Message.Receive returns an error: break, then the deferred
\* pingTicker.Stop().  Stop does not close pingTicker.C: a heartbeat goroutine
\* that has not returned stays blocked in `for range pingTicker.C`.
RecvErr(c) ==
    /\ At(c, "recv")
    /\ conn[c] = "down"
    /\ pc' = [pc EXCEPT ![c] = "td_lock"]
    /\ hb' = [hb EXCEPT ![c] = IF @ = "run" THEN "stopped" ELSE @]
    /\ io' = NoIO
    /\ UNCHANGED <<variant, env, rooms, roomsMutex, Clients, Mutex, roomID, room, isEmpty,
                   conn, lastMessageTime, mutedUntil, now, cur, todo, leaves, crashed>>

\* Discard that tells the sender its message was dropped.
Discard_notice(c, m) ==
    /\ \E ok \in SendResults(c) :
          io' = [by |-> c, req |-> NoReq, in |-> m,
                 out |-> {Frame(c, "dropped", NoConn, NoMsg, ok)}]
    /\ UNCHANGED <<pc, cur>>

\* `continue` without a reply.
Discard(c, m) ==
    /\ io' = [by |-> c, req |-> NoReq, in |-> m, out |-> {}]
    /\ UNCHANGED <<pc, cur>>

\* Reply that sends the notice to every member of the client's Room.
Reply_room(c, m, kind) ==
    /\ \E ok \in SendResults(c) :
          io' = [by |-> c, req |-> NoReq, in |-> m,
                 out |-> {Frame(d, kind, NoConn, NoMsg, ok /\ conn[d] = "open") :
                             d \in Clients[room[c]]}]
    /\ UNCHANGED <<pc, cur>>

\* Reply that leaves the receive loop when the notice cannot be sent.
Reply_break(c, m, kind) ==
    /\ \E ok \in SendResults(c) :
          /\ io' = [by |-> c, req |-> NoReq, in |-> m,
                    out |-> {Frame(c, kind, NoConn, NoMsg, ok)}]
          /\ pc' = IF ok THEN pc ELSE [pc EXCEPT ![c] = "td_lock"]
    /\ UNCHANGED cur

\* websocket.Message.Send(client.Conn, notice), its result ignored, and `continue`.
Reply(c, m, kind) ==
    /\ \E ok \in SendResults(c) :
          io' = [by |-> c, req |-> NoReq, in |-> m,
                 out |-> {Frame(c, kind, NoConn, NoMsg, ok)}]
    /\ UNCHANGED <<pc, cur>>

\* Accept that formats the message as it was received.
Accept_raw(c, m, t) ==
    /\ io' = [by |-> c, req |-> NoReq, in |-> m, out |-> {}]
    /\ cur' = [cur EXCEPT ![c] = m]
    /\ pc' = [pc EXCEPT ![c] = "bc_lock"]

\* The message goes on to the broadcast.
Accept(c, m, t) ==
    /\ io' = [by |-> c, req |-> NoReq, in |-> m, out |-> {}]
    /\ cur' = [cur EXCEPT ![c] = t]
    /\ pc' = [pc EXCEPT ![c] = "bc_lock"]

\* The body of the loop in src/main.go:587-598.
HandlePlain(c, m) ==
    LET t == TrimSpace(m) IN
    /\ IF MsgLen(t) = 0 \/ (SkipsCheckmark /\ t.check)
       THEN Discard(c, m)
       ELSE IF MsgLen(t) > maxMessageLength
       THEN Reply(c, m, "toolong")
       ELSE Accept(c, m, t)
    /\ UNCHANGED <<lastMessageTime, mutedUntil, now>>

\* The body of the loop in src/unnamed/part_004:214-220: the message is
\* neither trimmed nor tested for emptiness.
HandleRaw(c, m) ==
    /\ IF MsgLen(m) > maxMessageLength
       THEN Reply(c, m, "toolong")
       ELSE Accept(c, m, m)
    /\ UNCHANGED <<lastMessageTime, mutedUntil, now>>

\* HandleRate with the length test ahead of the mute test.
HandleRate_lenfirst(c, m, d) ==
    LET t == TrimSpace(m) IN
    IF MsgLen(t) = 0
    THEN /\ d = 0
         /\ Discard(c, m)
         /\ UNCHANGED <<lastMessageTime, mutedUntil, now>>
    ELSE /\ d = 0 \/ Ticks < MaxTicks
         /\ now' = now + d
         /\ IF MsgLen(t) > maxMessageLength
            THEN Reply(c, m, "toolong") /\ UNCHANGED <<lastMessageTime, mutedUntil>>
            ELSE IF now' < mutedUntil[c]
            THEN Discard(c, m) /\ UNCHANGED <<lastMessageTime, mutedUntil>>
            ELSE IF /\ lastMessageTime[c] # ZeroTime
                    /\ now' - lastMessageTime[c] < minMessageInterval
            THEN /\ mutedUntil' = [mutedUntil EXCEPT ![c] = now' + muteDuration]
                 /\ Reply(c, m, "rate")
                 /\ UNCHANGED lastMessageTime
            ELSE /\ lastMessageTime' = [lastMessageTime EXCEPT ![c] = now']
                 /\ Accept(c, m, t)
                 /\ UNCHANGED mutedUntil

\* HandleRate that still rate-limits a message arriving exactly 750 ms after
\* the previous one.
HandleRate_atmost(c, m, d) ==
    LET t == TrimSpace(m) IN
    IF MsgLen(t) = 0
    THEN /\ d = 0
         /\ Discard(c, m)
         /\ UNCHANGED <<lastMessageTime, mutedUntil, now>>
    ELSE /\ d = 0 \/ Ticks < MaxTicks
         /\ now' = now + d
         /\ IF now' < mutedUntil[c]
            THEN Discard(c, m) /\ UNCHANGED <<lastMessageTime, mutedUntil>>
            ELSE IF MsgLen(t) > maxMessageLength
            THEN Reply(c, m, "toolong") /\ UNCHANGED <<lastMessageTime, mutedUntil>>
            ELSE IF /\ lastMessageTime[c] # ZeroTime
                    /\ now' - lastMessageTime[c] <= minMessageInterval
            THEN /\ mutedUntil' = [mutedUntil EXCEPT ![c] = now' + muteDuration]
                 /\ Reply(c, m, "rate")
                 /\ UNCHANGED lastMessageTime
            ELSE /\ lastMessageTime' = [lastMessageTime EXCEPT ![c] = now']
                 /\ Accept(c, m, t)
                 /\ UNCHANGED mutedUntil

\* HandleRate that still counts a message arriving exactly at mutedUntil as muted.
HandleRate_inclusive(c, m, d) ==
    LET t == TrimSpace(m) IN
    IF MsgLen(t) = 0
    THEN /\ d = 0
         /\ Discard(c, m)
         /\ UNCHANGED <<lastMessageTime, mutedUntil, now>>
    ELSE /\ d = 0 \/ Ticks < MaxTicks
         /\ now' = now + d
         /\ IF now' <= mutedUntil[c]
            THEN Discard(c, m) /\ UNCHANGED <<lastMessageTime, mutedUntil>>
            ELSE IF MsgLen(t) > maxMessageLength
            THEN Reply(c, m, "toolong") /\ UNCHANGED <<lastMessageTime, mutedUntil>>
            ELSE IF /\ lastMessageTime[c] # ZeroTime
                    /\ now' - lastMessageTime[c] < minMessageInterval
            THEN /\ mutedUntil' = [mutedUntil EXCEPT ![c] = now' + muteDuration]
                 /\ Reply(c, m, "rate")
                 /\ UNCHANGED lastMessageTime
            ELSE /\ lastMessageTime' = [lastMessageTime EXCEPT ![c] = now']
                 /\ Accept(c, m, t)
                 /\ UNCHANGED mutedUntil

\* HandleRate whose mute starts again with every message sent during it.
HandleRate_extend(c, m, d) ==
    LET t == TrimSpace(m) IN
    IF MsgLen(t) = 0
    THEN /\ d = 0
         /\ Discard(c, m)
         /\ UNCHANGED <<lastMessageTime, mutedUntil, now>>
    ELSE /\ d = 0 \/ Ticks < MaxTicks
         /\ now' = now + d
         /\ IF now' < mutedUntil[c]
            THEN /\ mutedUntil' = [mutedUntil EXCEPT ![c] = now' + muteDuration]
                 /\ Discard(c, m)
                 /\ UNCHANGED lastMessageTime
            ELSE IF MsgLen(t) > maxMessageLength
            THEN Reply(c, m, "toolong") /\ UNCHANGED <<lastMessageTime, mutedUntil>>
            ELSE IF /\ lastMessageTime[c] # ZeroTime
                    /\ now' - lastMessageTime[c] < minMessageInterval
            THEN /\ mutedUntil' = [mutedUntil EXCEPT ![c] = now' + muteDuration]
                 /\ Reply(c, m, "rate")
                 /\ UNCHANGED lastMessageTime
            ELSE /\ lastMessageTime' = [lastMessageTime EXCEPT ![c] = now']
                 /\ Accept(c, m, t)
                 /\ UNCHANGED mutedUntil

\* HandleRate that mutes from the previous message instead of from now.
HandleRate_short(c, m, d) ==
    LET t == TrimSpace(m) IN
    IF MsgLen(t) = 0
    THEN /\ d = 0
         /\ Discard(c, m)
         /\ UNCHANGED <<lastMessageTime, mutedUntil, now>>
    ELSE /\ d = 0 \/ Ticks < MaxTicks
         /\ now' = now + d
         /\ IF now' < mutedUntil[c]
            THEN Discard(c, m) /\ UNCHANGED <<lastMessageTime, mutedUntil>>
            ELSE IF MsgLen(t) > maxMessageLength
            THEN Reply(c, m, "toolong") /\ UNCHANGED <<lastMessageTime, mutedUntil>>
            ELSE IF /\ lastMessageTime[c] # ZeroTime
                    /\ now' - lastMessageTime[c] < minMessageInterval
            THEN /\ mutedUntil' = [mutedUntil EXCEPT ![c] = lastMessageTime[c] + muteDuration]
                 /\ Reply(c, m, "rate")
                 /\ UNCHANGED lastMessageTime
            ELSE /\ lastMessageTime' = [lastMessageTime EXCEPT ![c] = now']
                 /\ Accept(c, m, t)
                 /\ UNCHANGED mutedUntil

\* The body of the loop in src/unnamed/part_002:221-245; `d` is the time
\* since the previous reading of the clock, read by now := time.Now().
HandleRate(c, m, d) ==
    LET t == TrimSpace(m) IN
    IF MsgLen(t) = 0
    THEN /\ d = 0
         /\ Discard(c, m)
         /\ UNCHANGED <<lastMessageTime, mutedUntil, now>>
    ELSE /\ d = 0 \/ Ticks < MaxTicks
         /\ now' = now + d
         /\ IF now' < mutedUntil[c]
            THEN Discard(c, m) /\ UNCHANGED <<lastMessageTime, mutedUntil>>
            ELSE IF MsgLen(t) > maxMessageLength
            THEN Reply(c, m, "toolong") /\ UNCHANGED <<lastMessageTime, mutedUntil>>
            ELSE IF /\ lastMessageTime[c] # ZeroTime
                    /\ now' - lastMessageTime[c] < minMessageInterval
            THEN /\ mutedUntil' = [mutedUntil EXCEPT ![c] = now' + muteDuration]
                 /\ Reply(c, m, "rate")
                 /\ UNCHANGED lastMessageTime
            ELSE /\ lastMessageTime' = [lastMessageTime EXCEPT ![c] = now']
                 /\ Accept(c, m, t)
                 /\ UNCHANGED mutedUntil

\* websocket.Message.Receive returns a message; one pass of the loop body up
\* to `continue` or to the broadcast.
RecvMsg(c, m, d) ==
    /\ At(c, "recv")
    /\ conn[c] = "open"
    /\ d \in env.delays
    /\ IF RateLimited THEN HandleRate(c, m, d)
       ELSE IF variant = "p4" THEN d = 0 /\ HandleRaw(c, m)
       ELSE d = 0 /\ HandlePlain(c, m)
    /\ UNCHANGED <<variant, env, rooms, roomsMutex, Clients, Mutex, roomID, room, isEmpty,
                   conn, hb, todo, leaves, crashed>>

\* BcastLock whose loop leaves the sender out.
BcastLock_others(c) ==
    /\ At(c, "bc_lock")
    /\ Mutex[room[c]] = NoConn
    /\ Mutex' = [Mutex EXCEPT ![room[c]] = c]
    /\ todo' = [todo EXCEPT ![c] = Clients[room[c]] \ {c}]
    /\ pc' = [pc EXCEPT ![c] = "bc_send"]
    /\ io' = NoIO
    /\ UNCHANGED <<variant, env, rooms, roomsMutex, Clients, roomID, room, isEmpty, conn, hb,
                   lastMessageTime, mutedUntil, now, cur, leaves, crashed>>

\* BcastLock whose iteration runs over the members of every Room.
BcastLock_global(c) ==
    /\ At(c, "bc_lock")
    /\ Mutex[room[c]] = NoConn
    /\ Mutex' = [Mutex EXCEPT ![room[c]] = c]
    /\ todo' = [todo EXCEPT ![c] = UNION {Clients[x] : x \in RoomObjs}]
    /\ pc' = [pc EXCEPT ![c] = "bc_send"]
    /\ io' = NoIO
    /\ UNCHANGED <<variant, env, rooms, roomsMutex, Clients, roomID, room, isEmpty, conn, hb,
                   lastMessageTime, mutedUntil, now, cur, leaves, crashed>>

\* BcastLock that does not wait for room.Mutex.
BcastLock_nolock(c) ==
    /\ At(c, "bc_lock")
    /\ Mutex' = [Mutex EXCEPT ![room[c]] = c]
    /\ todo' = [todo EXCEPT ![c] = Clients[room[c]]]
    /\ pc' = [pc EXCEPT ![c] = "bc_send"]
    /\ io' = NoIO
    /\ UNCHANGED <<variant, env, rooms, roomsMutex, Clients, roomID, room, isEmpty, conn, hb,
                   lastMessageTime, mutedUntil, now, cur, leaves, crashed>>

\* room.Mutex.Lock() and the start of `for clientConn := range room.Clients`.
BcastLock(c) ==
    /\ At(c, "bc_lock")
    /\ Mutex[room[c]] = NoConn
    /\ Mutex' = [Mutex EXCEPT ![room[c]] = c]
    /\ todo' = [todo EXCEPT ![c] = Clients[room[c]]]
    /\ pc' = [pc EXCEPT ![c] = "bc_send"]
    /\ io' = NoIO
    /\ UNCHANGED <<variant, env, rooms, roomsMutex, Clients, roomID, room, isEmpty, conn, hb,  lastMessageTime, mutedUntil, now, cur, leaves, crashed>>

\* BcastSend that drops a member from the Room when the send to it fails.
BcastSend_evict(c, m) ==
    /\ At(c, "bc_send")
    /\ m \in todo[c]
    /\ todo' = [todo EXCEPT ![c] = @ \ {m}]
    /\ \E ok \in SendResults(m) :
          /\ Clients' = [Clients EXCEPT ![room[c]] = IF ok THEN @ ELSE @ \ {m}]
          /\ io' = [by |-> c, req |-> NoReq, in |-> NoMsg,
                    out |-> {Frame(m, "chat", c, cur[c], ok)}]
    /\ UNCHANGED <<variant, env, rooms, roomsMutex, Mutex, pc, roomID, room, isEmpty,
                   conn, hb, lastMessageTime, mutedUntil, now, cur, leaves, crashed>>

\* BcastSend with a loop that stops at the first failed send.
BcastSend_break(c, m) ==
    /\ At(c, "bc_send")
    /\ m \in todo[c]
    /\ \E ok \in SendResults(m) :
          /\ todo' = [todo EXCEPT ![c] = IF ok THEN @ \ {m} ELSE {}]
          /\ io' = [by |-> c, req |-> NoReq, in |-> NoMsg,
                 out |-> {Frame(m, "chat", c, cur[c], ok)}]
    /\ UNCHANGED <<variant, env, rooms, roomsMutex, Clients, Mutex, pc, roomID, room, isEmpty,
                   conn, hb, lastMessageTime, mutedUntil, now, cur, leaves, crashed>>

\* One iteration: websocket.Message.Send(clientConn.Conn, formattedMsg); an
\* error is logged and the loop goes on.
BcastSend(c, m) ==
    /\ At(c, "bc_send")
    /\ m \in todo[c]
    /\ todo' = [todo EXCEPT ![c] = @ \ {m}]
    /\ \E ok \in SendResults(m) :
          io' = [by |-> c, req |-> NoReq, in |-> NoMsg,
                 out |-> {Frame(m, "chat", c, cur[c], ok)}]
    /\ UNCHANGED <<variant, env, rooms, roomsMutex, Clients, Mutex, pc, roomID, room, isEmpty,
                   conn, hb,  lastMessageTime, mutedUntil, now, cur, leaves, crashed>>

\* The iteration is over: room.Mutex.Unlock(), back to Receive.
BcastUnlock(c) ==
    /\ At(c, "bc_send")
    /\ todo[c] = {}
    /\ Mutex' = [Mutex EXCEPT ![room[c]] = NoConn]
    /\ cur' = [cur EXCEPT ![c] = NoMsg]
    /\ pc' = [pc EXCEPT ![c] = "recv"]
    /\ io' = NoIO
    /\ UNCHANGED <<variant, env, rooms, roomsMutex, Clients, roomID, room, isEmpty, conn, hb,  lastMessageTime, mutedUntil, now, todo, leaves, crashed>>

(***************************************************************************)
(* The deferred teardown.                                                  *)
(***************************************************************************)
\* room.Mutex.Lock()
TdLock(c) ==
    /\ At(c, "td_lock")
    /\ Mutex[room[c]] = NoConn
    /\ Mutex' = [Mutex EXCEPT ![room[c]] = c]
    /\ pc' = [pc EXCEPT ![c] = "td_leave"]
    /\ io' = NoIO
    /\ UNCHANGED <<variant, env, rooms, roomsMutex, Clients, roomID, room, isEmpty, conn, hb,  lastMessageTime, mutedUntil, now, cur, todo, leaves, crashed>>

\* TdLeave that empties the Room instead of removing the one client.
TdLeave_clear(c) ==
    /\ At(c, "td_leave")
    /\ LET left == {} IN
       /\ Clients' = [Clients EXCEPT ![room[c]] = left]
       /\ isEmpty' = [isEmpty EXCEPT ![c] = (left = {})]
       /\ pc' = [pc EXCEPT ![c] = IF left = {} THEN "td_reglock" ELSE "td_close"]
       /\ Mutex' = IF NestedTeardown /\ left = {}
                   THEN Mutex
                   ELSE [Mutex EXCEPT ![room[c]] = NoConn]
    /\ leaves' = [leaves EXCEPT ![c].left = @ + 1]
    /\ io' = NoIO
    /\ UNCHANGED <<variant, env, rooms, roomsMutex, roomID, room, conn, hb,
                   lastMessageTime, mutedUntil, now, cur, todo, crashed>>

\* delete(room.Clients, client); isEmpty := len(room.Clients) == 0;
\* room.Mutex.Unlock(); and the test `if isEmpty`.
\* In src/unnamed/part_004:197-203 the test is made, and the registry delete
\* done, before room.Mutex.Unlock().
TdLeave(c) ==
    /\ At(c, "td_leave")
    /\ LET left == Clients[room[c]] \ {c} IN
       /\ Clients' = [Clients EXCEPT ![room[c]] = left]
       /\ isEmpty' = [isEmpty EXCEPT ![c] = (left = {})]
       /\ pc' = [pc EXCEPT ![c] = IF left = {} THEN "td_reglock" ELSE "td_close"]
       /\ Mutex' = IF NestedTeardown /\ left = {}
                   THEN Mutex
                   ELSE [Mutex EXCEPT ![room[c]] = NoConn]
    /\ leaves' = [leaves EXCEPT ![c].left = @ + 1]
    /\ io' = NoIO
    /\ UNCHANGED <<variant, env, rooms, roomsMutex, roomID, room, conn, hb,
                   lastMessageTime, mutedUntil, now, cur, todo, crashed>>

\* roomsMutex.Lock() of the teardown.
TdRegLock(c) ==
    /\ At(c, "td_reglock")
    /\ roomsMutex = NoConn
    /\ roomsMutex' = c
    /\ pc' = [pc EXCEPT ![c] = "td_regdel"]
    /\ io' = NoIO
    /\ UNCHANGED <<variant, env, rooms, Clients, Mutex, roomID, room, isEmpty, conn, hb,  lastMessageTime, mutedUntil, now, cur, todo, leaves, crashed>>

\* TdRegDelete without the delete(rooms, roomID).
TdRegDelete_keep(c) ==
    /\ At(c, "td_regdel")
    /\ roomsMutex' = NoConn
    /\ Mutex' = IF NestedTeardown THEN [Mutex EXCEPT ![room[c]] = NoConn] ELSE Mutex
    /\ pc' = [pc EXCEPT ![c] = "td_close"]
    /\ leaves' = [leaves EXCEPT ![c].released = @ + 1]
    /\ io' = NoIO
    /\ UNCHANGED <<variant, env, rooms, Clients, roomID, room, isEmpty, conn, hb,
                   lastMessageTime, mutedUntil, now, cur, todo, crashed>>

\* delete(rooms, roomID); roomsMutex.Unlock(); in src/unnamed/part_004:200-203
\* followed by room.Mutex.Unlock().
TdRegDelete(c) ==
    /\ At(c, "td_regdel")
    /\ rooms' = [rooms EXCEPT ![roomID[c]] = NoRoom]
    /\ roomsMutex' = NoConn
    /\ Mutex' = IF NestedTeardown THEN [Mutex EXCEPT ![room[c]] = NoConn] ELSE Mutex
    /\ pc' = [pc EXCEPT ![c] = "td_close"]
    /\ leaves' = [leaves EXCEPT ![c].released = @ + 1]
    /\ io' = NoIO
    /\ UNCHANGED <<variant, env, Clients, roomID, room, isEmpty, conn, hb,
                   lastMessageTime, mutedUntil, now, cur, todo, crashed>>

\* ws.Close(); the handler returns.
TdClose(c) ==
    /\ At(c, "td_close")
    /\ conn' = [conn EXCEPT ![c] = "down"]
    /\ pc' = [pc EXCEPT ![c] = "done"]
    /\ room' = [room EXCEPT ![c] = NoRoom]
    /\ isEmpty' = [isEmpty EXCEPT ![c] = FALSE]
    /\ io' = NoIO
    /\ UNCHANGED <<variant, env, rooms, roomsMutex, Clients, Mutex, roomID, hb,
                   lastMessageTime, mutedUntil, now, cur, todo, leaves, crashed>>

(***************************************************************************)
(* The heartbeat goroutine: for range pingTicker.C { Send(ws, "") }.       *)
(***************************************************************************)
\* Heartbeat that also takes the client out of its Room when the send fails.
Heartbeat_cleanup(c) ==
    /\ ~crashed
    /\ hb[c] = "run"
    /\ \E ok \in SendResults(c) :
          /\ io' = [by |-> c, req |-> NoReq, in |-> NoMsg,
                   out |-> {Frame(c, "ping", NoConn, NoMsg, ok)}]
          /\ IF ok
             THEN UNCHANGED <<conn, hb, Clients>>
             ELSE /\ conn' = [conn EXCEPT ![c] = "down"]
                  /\ hb' = [hb EXCEPT ![c] = "done"]
                  /\ Clients' = [x \in RoomObjs |-> Clients[x] \ {c}]
    /\ UNCHANGED <<variant, env, rooms, roomsMutex, Mutex, pc, roomID, room, isEmpty,
                   lastMessageTime, mutedUntil, now, cur, todo, leaves, crashed>>

Heartbeat(c) ==
    /\ ~crashed
    /\ hb[c] = "run"
    /\ \E ok \in SendResults(c) :
          /\ io' = [by |-> c, req |-> NoReq, in |-> NoMsg,
                   out |-> {Frame(c, "ping", NoConn, NoMsg, ok)}]
          /\ IF ok
             THEN UNCHANGED <<conn, hb>>
             ELSE /\ conn' = [conn EXCEPT ![c] = "down"]       \* ws.Close()
                  /\ hb' = [hb EXCEPT ![c] = "done"]           \* return
    /\ UNCHANGED <<variant, env, rooms, roomsMutex, Clients, Mutex, pc, roomID, room, isEmpty,
                   lastMessageTime, mutedUntil, now, cur, todo, leaves, crashed>>

(***************************************************************************)
(* The environment: the peers and the network.                             *)
(***************************************************************************)
\* The transport is reset or the peer closes: reads and writes fail.
PeerDrop(c) ==
    /\ ~crashed
    /\ conn[c] = "open"
    /\ conn' = [conn EXCEPT ![c] = "down"]
    /\ io' = NoIO
    /\ UNCHANGED <<variant, env, rooms, roomsMutex, Clients, Mutex, pc, roomID, room, isEmpty,
                   hb,  lastMessageTime, mutedUntil, now, cur, todo, leaves, crashed>>

Next ==
    \/ \E c \in Conns : Connect(c)
    \/ \E c \in Conns : JoinLock(c)
    \/ \E c \in Conns : JoinInsert(c)
    \/ \E c \in Conns : RecvErr(c)
    \/ \E c \in Conns, m \in Msgs, d \in Delays : RecvMsg(c, m, d)
    \/ \E c \in Conns : BcastLock(c)
    \/ \E c \in Conns, m \in Conns : BcastSend(c, m)
    \/ \E c \in Conns : BcastUnlock(c)
    \/ \E c \in Conns : TdLock(c)
    \/ \E c \in Conns : TdLeave(c)
    \/ \E c \in Conns : TdRegLock(c)
    \/ \E c \in Conns : TdRegDelete(c)
    \/ \E c \in Conns : TdClose(c)
    \/ \E c \in Conns : Heartbeat(c)
    \/ \E c \in Conns : PeerDrop(c)

Spec == Init /\ [][Next]_vars

SpecRate == InitRate /\ [][Next]_vars

\* The rate-limited handler of src/unnamed/part_002 with requests that carry
\* no room id, the clock standing still.
InitQuery == InitWith("rate", RateConns, {"", "zz", "r1"}, {0})

SpecQuery == InitQuery /\ [][Next]_vars

(***************************************************************************)
(* src/unnamed/part_004: no heartbeat goroutine is started.                *)
(***************************************************************************)
NextNested ==
    \/ \E c \in Conns : Connect(c)
    \/ \E c \in Conns : JoinLock(c)
    \/ \E c \in Conns : JoinInsert(c)
    \/ \E c \in Conns : RecvErr(c)
    \/ \E c \in Conns, m \in Msgs, d \in Delays : RecvMsg(c, m, d)
    \/ \E c \in Conns : BcastLock(c)
    \/ \E c \in Conns, m \in Conns : BcastSend(c, m)
    \/ \E c \in Conns : BcastUnlock(c)
    \/ \E c \in Conns : TdLock(c)
    \/ \E c \in Conns : TdLeave(c)
    \/ \E c \in Conns : TdRegLock(c)
    \/ \E c \in Conns : TdRegDelete(c)
    \/ \E c \in Conns : TdClose(c)
    \/ \E c \in Conns : PeerDrop(c)

InitNested == InitWith("p4", NumConns, {"", "r1", "r2"}, {0})

SpecNested == InitNested /\ [][NextNested]_vars

(***************************************************************************)
(* Progress.  The Go scheduler runs every runnable goroutine, so a step    *)
(* that stays possible is taken (WF); sync.Mutex hands a lock that is      *)
(* released again and again to a goroutine that keeps waiting for it       *)
(* (starvation mode), so a Lock() that is possible again and again returns *)
(* (SF).  Every websocket.Message.Send returns.  Nothing obliges a peer to *)
(* connect, to send or to drop, nor the ticker to fire.                    *)
(***************************************************************************)
\* The steps handler c takes on its own: all but the arrival of a message.
\* The handler stands at one place at a time, so at most one of them is possible.
Proceed(c) ==
    \/ JoinLock(c)
    \/ JoinInsert(c)
    \/ RecvErr(c)
    \/ BcastLock(c)
    \/ \E m \in Conns : BcastSend(c, m)
    \/ BcastUnlock(c)
    \/ TdLock(c)
    \/ TdLeave(c)
    \/ TdRegLock(c)
    \/ TdRegDelete(c)
    \/ TdClose(c)

Fairness == \A c \in Conns : SF_vars(Proceed(c))

\* Both lock disciplines of the teardown: the handler of src/main.go:511-608
\* and the handler of src/unnamed/part_004:177-228.
InitLocks == \E v \in {"jwt", "p4"} : InitWith(v, NumConns, {"r1", "r2"}, {0})

SpecLocks == InitLocks /\ [][Next]_vars

\* The token-gated handler with two connections, under fair scheduling.
InitLive == InitWith("jwt", LiveConns, {"r1", "r2"}, {0})

SpecLive == InitLive /\ [][Next]_vars /\ Fairness


(***************************************************************************)
(* Vocabulary of the properties.                                           *)
(***************************************************************************)
\* The join step of c has completed and its teardown has not started.
Connected(c) == pc[c] \in {"recv", "bc_lock", "bc_send"}

\* c is inside its deferred teardown.
TearingDown(c) == pc[c] \in {"td_lock", "td_leave", "td_reglock", "td_regdel", "td_close"}

\* c has been admitted and has not yet joined.
Joining(c) == pc[c] \in {"join", "joining"}

\* No join step and no teardown is in progress.
Quiescent == \A c \in Conns : ~Joining(c) /\ ~TearingDown(c)

\* c is a member of the Room it joined.
Member(c) == (Connected(c) \/ TearingDown(c)) /\ c \in Clients[room[c]]

(***************************************************************************)
(* C1.  Whenever no join step and no teardown is in progress, the registry *)
(* has an entry for room id r exactly if some admitted client that is not  *)
(* torn down is a member of a Room for r.                                  *)
(* The code refutes it: the teardown deletes rooms[roomID] on the strength *)
(* of an emptiness test made before it took roomsMutex.                    *)
(***************************************************************************)
C1_RegistryIffMember ==
    Quiescent =>
        \A r \in RoomIds :
            (rooms[r] # NoRoom) <=> (\E c \in Conns : Member(c) /\ roomID[c] = r)

(***************************************************************************)
(* C2.  Every Room object with at least one member is the Room registered  *)
(* under its id: a teardown never removes the entry of a Room that has     *)
(* members, so a joining client is never left in an unregistered Room.     *)
(* The code refutes it.                                                    *)
(***************************************************************************)
C2_MemberRoomRegistered ==
    \A c \in Conns : Member(c) => rooms[roomID[c]] = room[c]

(***************************************************************************)
(* C3.  Two clients connected under the same room id are never in          *)
(* different Room objects, and a broadcast, when it takes the Room lock,   *)
(* is about to visit every client connected under the sender's room id.    *)
(* The code refutes it.                                                    *)
(***************************************************************************)
SameIdSameRoom ==
    \A c, d \in Conns :
        Connected(c) /\ Connected(d) /\ roomID[c] = roomID[d] => room[c] = room[d]

BroadcastCoversId ==
    \A c \in Conns :
        pc[c] = "bc_lock" /\ pc'[c] = "bc_send" =>
            \A d \in Conns : Connected(d) /\ roomID[d] = roomID[c] => d \in todo'[c]

C3_BroadcastReachesRoomId == [](SameIdSameRoom) /\ [][BroadcastCoversId]_vars

(***************************************************************************)
(* C4.  A broadcast attempts a delivery to every member the Room has when  *)
(* the broadcast starts: the iteration starts from the whole member set,   *)
(* a step takes out of the members still to visit only those it sent a     *)
(* frame to, whether the send failed or not, and the Room lock is given    *)
(* back only when no member is left to visit.                              *)
(***************************************************************************)
Targets(frames) == {f.to : f \in frames}

BroadcastVisitsAll ==
    \A c \in Conns :
        /\ pc[c] = "bc_lock" /\ pc'[c] = "bc_send" => todo'[c] = Clients[room[c]]
        /\ pc[c] = "bc_send" /\ pc'[c] = "bc_send" =>
              todo[c] \ todo'[c] \subseteq
                 (IF io'.by = c THEN Targets({f \in io'.out : f.kind = "chat"}) ELSE {})
        /\ pc[c] = "bc_send" /\ pc'[c] # "bc_send" => todo[c] = {}

C4_BroadcastVisitsAll == [][BroadcastVisitsAll]_vars

\* A delivery has just failed and members are still to be visited.
C4_Witness ==
    /\ \E f \in io.out : f.kind = "chat" /\ ~f.ok
    /\ io.by # NoConn
    /\ pc[io.by] = "bc_send"
    /\ todo[io.by] # {}

(***************************************************************************)
(* C5.  For every admitted client the removal from its Room runs exactly   *)
(* once and the registry delete at most once, by the time its handler has  *)
(* returned, whatever made Receive fail; a step of the heartbeat goroutine *)
(* changes neither a member set nor the registry.                          *)
(***************************************************************************)
TeardownOnce ==
    \A c \in Conns :
        /\ leaves[c].left <= 1
        /\ leaves[c].released <= leaves[c].left
        /\ pc[c] = "done" => leaves[c].left = 1
        /\ leaves[c].left = 1 => TearingDown(c) \/ pc[c] = "done"

HeartbeatLeavesRooms ==
    (\E f \in io'.out : f.kind = "ping") =>
        Clients' = Clients /\ rooms' = rooms /\ leaves' = leaves

C5_TeardownOnce == [](TeardownOnce) /\ [][HeartbeatLeavesRooms]_vars

\* A handler has returned after its heartbeat's send failed and closed the
\* connection.
C5_Witness ==
    \E c \in Conns : pc[c] = "done" /\ hb[c] = "done" /\ leaves[c].left = 1

(***************************************************************************)
(* C10.  Once every client that joined under room id r has finished its    *)
(* teardown, the registry has no entry for r; and a join that finds no     *)
(* entry for its room id registers a new Room whose member set is exactly  *)
(* the joining client.                                                     *)
(***************************************************************************)
NoEntryAfterLast ==
    \A r \in RoomIds :
        /\ \E d \in Conns : pc[d] = "done" /\ roomID[d] = r
        /\ \A c \in Conns : roomID[c] = r => ~Connected(c) /\ ~TearingDown(c)
        => rooms[r] = NoRoom

JoinCreatesFresh ==
    \A c \in Conns :
        pc[c] = "joining" /\ pc'[c] = "recv" /\ rooms[roomID[c]] = NoRoom =>
            /\ rooms'[roomID[c]] = room'[c]
            /\ Clients'[room'[c]] = {c}

C10_FreshRoomAfterLast == [](NoEntryAfterLast) /\ [][JoinCreatesFresh]_vars

\* A client has joined room id r after the last member of r released it.
C10_Witness ==
    \E c, d \in Conns :
        /\ pc[d] = "done" /\ leaves[d].released = 1 /\ roomID[d] = roomID[c]
        /\ pc[c] = "recv"
        /\ rooms[roomID[c]] = room[c]
        /\ Clients[room[c]] = {c}
        /\ \A e \in Conns \ {c} : roomID[e] = roomID[c] => pc[e] = "done"


(***************************************************************************)
(* The rate limiter.  A step that handles a message of client c leaves the *)
(* message in io.in; the time it arrived at is the new reading of `now`.   *)
(***************************************************************************)
Handles(c) == io'.by = c /\ ~io'.in.none

\* After trimming, the message is not empty and within the cap.
Sendable(m) ==
    MsgLen(TrimSpace(m)) > 0 /\ MsgLen(TrimSpace(m)) <= maxMessageLength

(***************************************************************************)
(* C6.  A non-empty message of at most 160 units that arrives from a       *)
(* client that is not muted, less than 750 ms after the client's previous  *)
(* message timestamp, is not broadcast; exactly one rate-limit notice is   *)
(* sent, to the sender, and mutedUntil becomes the arrival time plus 10 s. *)
(***************************************************************************)
RateLimitMutes ==
    \A c \in Conns :
        /\ Handles(c)
        /\ Sendable(io'.in)
        /\ ~(now' < mutedUntil[c])
        /\ lastMessageTime[c] # ZeroTime
        /\ now' - lastMessageTime[c] < minMessageInterval
        => /\ pc'[c] = "recv"
           /\ cur' = cur
           /\ Cardinality(io'.out) = 1
           /\ \A f \in io'.out : f.kind = "rate" /\ f.to = c
           /\ mutedUntil'[c] = now' + muteDuration
           /\ lastMessageTime' = lastMessageTime

C6_RateLimitMutes == [][RateLimitMutes]_vars

\* A client with another member in its Room has just been rate limited, some
\* time after its previous message.
C6_Witness ==
    \E c \in Conns :
        /\ io.by = c /\ Sendable(io.in)
        /\ \E f \in io.out : f.kind = "rate" /\ f.to = c
        /\ mutedUntil[c] = now + muteDuration
        /\ lastMessageTime[c] # ZeroTime /\ lastMessageTime[c] < now
        /\ pc[c] = "recv"
        /\ Cardinality(Clients[room[c]]) > 1

(***************************************************************************)
(* C7.  A message that arrives before its client's mutedUntil is dropped   *)
(* silently: no frame is sent to anyone, nothing is broadcast and the      *)
(* limiter's state stays; and mutedUntil changes only in a step that sends *)
(* one rate-limit notice, so a mute window holds exactly one notice.       *)
(***************************************************************************)
MutedIsSilent ==
    \A c \in Conns :
        /\ Handles(c) /\ now' < mutedUntil[c] =>
              /\ io'.out = {}
              /\ pc'[c] = "recv"
              /\ cur' = cur
              /\ mutedUntil' = mutedUntil
              /\ lastMessageTime' = lastMessageTime
        /\ mutedUntil'[c] # mutedUntil[c] =>
              /\ Handles(c)
              /\ Cardinality(io'.out) = 1
              /\ \A f \in io'.out : f.kind = "rate" /\ f.to = c

C7_MutedIsSilent == [][MutedIsSilent]_vars

\* A muted client's non-empty message has just been dropped.
C7_Witness ==
    \E c \in Conns :
        /\ io.by = c /\ ~io.in.none /\ MsgLen(TrimSpace(io.in)) > 0
        /\ now < mutedUntil[c]
        /\ io.out = {}
        /\ pc[c] = "recv"

(***************************************************************************)
(* C8.  A message longer than 160 after trimming is never broadcast and    *)
(* makes the handler send exactly one length-violation notice to its       *)
(* sender, in every state of the sender's limiter, muted or not.           *)
(* src/unnamed/part_002 refutes it: its mute test comes first.             *)
(***************************************************************************)
C8_TooLongAlwaysNoticed ==
    (~io.in.none /\ MsgLen(TrimSpace(io.in)) > maxMessageLength) =>
        /\ pc[io.by] = "recv"
        /\ Cardinality(io.out) = 1
        /\ \A f \in io.out : f.kind = "toolong" /\ f.to = io.by

(***************************************************************************)
(* C9.  After a client has been muted, its first non-empty message of at   *)
(* most 160 units that arrives at or after mutedUntil goes to the          *)
(* broadcast and leaves mutedUntil alone.                                  *)
(***************************************************************************)
UnmutedResumes ==
    \A c \in Conns :
        /\ Handles(c)
        /\ Sendable(io'.in)
        /\ mutedUntil[c] # ZeroTime
        /\ now' >= mutedUntil[c]
        /\ lastMessageTime[c] + muteDuration <= mutedUntil[c]
        => /\ pc'[c] = "bc_lock"
           /\ cur'[c] = TrimSpace(io'.in)
           /\ io'.out = {}
           /\ mutedUntil' = mutedUntil
           /\ lastMessageTime'[c] = now'

C9_UnmutedResumes == [][UnmutedResumes]_vars

\* A client that was muted has just had a message accepted.
C9_Witness ==
    \E c \in Conns :
        /\ io.by = c /\ Sendable(io.in)
        /\ pc[c] = "bc_lock"
        /\ mutedUntil[c] # ZeroTime /\ now >= mutedUntil[c]
        /\ lastMessageTime[c] = now

(***************************************************************************)
(* C11.  In the token-gated handler a connection whose auth_token is       *)
(* missing, has an invalid signature or is expired is closed in the step   *)
(* that reads it, that step leaves the registry and every member set as    *)
(* they were, and the connection never becomes a member of a Room.         *)
(***************************************************************************)
BadCredential(q) == q.kind \in {"missing", "invalid", "expired"}

RefusalTouchesNothing ==
    \A c \in Conns :
        /\ io'.by = c /\ BadCredential(io'.req) =>
              /\ pc'[c] = "refused"
              /\ conn'[c] = "down"
              /\ rooms' = rooms
              /\ Clients' = Clients
        /\ pc[c] = "refused" => pc'[c] = "refused"

RefusedNeverMember ==
    \A c \in Conns :
        pc[c] = "refused" =>
            /\ conn[c] = "down"
            /\ room[c] = NoRoom
            /\ \A x \in RoomObjs : c \notin Clients[x]

C11_BadCredentialRefused == [](RefusedNeverMember) /\ [][RefusalTouchesNothing]_vars

\* A connection with an expired token has just been refused while a Room has
\* members.
C11_Witness ==
    \E c \in Conns :
        /\ io.by = c /\ io.req.kind = "expired"
        /\ pc[c] = "refused"
        /\ \E d \in Conns : Member(d) /\ rooms[roomID[d]] = room[d]

(***************************************************************************)
(* C12.  In the token-gated handler a connection whose valid token names a *)
(* room id other than the one its request declares is refused: the step    *)
(* that reads the request closes the connection instead of letting it on   *)
(* to the join.                                                            *)
(* src/main.go refutes it: the handler takes roomID from the claims and    *)
(* never reads the declared room.                                          *)
(***************************************************************************)
C12_RoomMismatchRefused ==
    \A c \in Conns :
        /\ io.by = c
        /\ io.req.kind = "valid"
        /\ io.req.claimed # io.req.declared
        => pc[c] = "refused" /\ conn[c] = "down"

(***************************************************************************)
(* C13.  Under fair scheduling, with every send returning: a client whose  *)
(* Receive has failed (the connection was reset, closed by the peer, or    *)
(* closed by its own heartbeat after a failed ping) is eventually in no    *)
(* member set; a teardown that found its Room empty eventually runs its    *)
(* registry delete, and that delete leaves no entry under the client's     *)
(* room id.                                                                *)
(* The code refutes it: the unsynchronised insertion of a join (C14) can   *)
(* abort the process while the client's teardown is inside the Room.       *)
(***************************************************************************)
ReceiveFailed(c) == pc[c] \in {"td_lock", "td_leave"}

Removed(c) == \A x \in RoomObjs : c \notin Clients[x]

ReleaseDeletesEntry ==
    \A c \in Conns :
        leaves'[c].released # leaves[c].released => rooms'[roomID[c]] = NoRoom

C13_FailedClientLeaves ==
    /\ \A c \in Conns : ReceiveFailed(c) ~> Removed(c)
    /\ \A c \in Conns : (pc[c] = "td_reglock") ~> (leaves[c].released = 1)
    /\ [][ReleaseDeletesEntry]_vars

(***************************************************************************)
(* C14.  The member set of a Room that the registry or a handler already   *)
(* points to changes, and is iterated, only in a step of the handler that  *)
(* holds that Room's Mutex; and no handler stands at the insertion of its  *)
(* join into a Room while another handler is inside a broadcast iteration  *)
(* or a teardown removal on that Room.                                     *)
(* The code refutes it: the join inserts under roomsMutex alone.           *)
(***************************************************************************)
HoldsRoomLock(c, x) == Mutex[x] = c

LockedMemberAccess ==
    /\ \A x \in RoomObjs :
          x \in Live /\ Clients'[x] # Clients[x] =>
              \E c \in Conns : HoldsRoomLock(c, x) /\ pc'[c] # pc[c]
    /\ \A c \in Conns :
          todo'[c] # todo[c] => pc'[c] = "bc_send" /\ Mutex'[room'[c]] = c

JoinNeverOverlaps ==
    \A c \in Conns :
        pc[c] = "joining" /\ rooms[roomID[c]] # NoRoom =>
            Accessing(rooms[roomID[c]]) = {}

C14_MembersUnderRoomLock == [](JoinNeverOverlaps) /\ [][LockedMemberAccess]_vars

(***************************************************************************)
(* C15.  Broadcasts of one Room object take turns.  At most one handler is *)
(* inside the broadcast loop of a Room; a chat frame is written only by    *)
(* the handler that holds the Room's Mutex, and carries the one message    *)
(* that handler is broadcasting; a broadcast starts delivering only when   *)
(* no other broadcast of the Room is under way.  Every delivery of one     *)
(* broadcast therefore precedes every delivery of the next, and two        *)
(* members see any two broadcasts in the same order.                       *)
(***************************************************************************)
Broadcasting(c) == pc[c] = "bc_send"

OneBroadcastPerRoom ==
    \A c, d \in Conns :
        c # d /\ Broadcasting(c) /\ Broadcasting(d) => room[c] # room[d]

BroadcastsTakeTurns ==
    \A c \in Conns :
        /\ (io'.by = c /\ \E f \in io'.out : f.kind = "chat") =>
              /\ Broadcasting(c) /\ Mutex[room[c]] = c
              /\ \A f \in io'.out : f.kind = "chat" /\ f.from = c /\ f.body = cur[c]
              /\ \A d \in Conns \ {c} : room[d] = room[c] => ~Broadcasting(d)
        /\ Broadcasting(c) /\ pc'[c] = "bc_send" => cur'[c] = cur[c] /\ Mutex'[room[c]] = c
        /\ ~Broadcasting(c) /\ pc'[c] = "bc_send" =>
              \A d \in Conns \ {c} : room[d] = room[c] => ~Broadcasting(d)

C15_BroadcastsSerialized == [](OneBroadcastPerRoom) /\ [][BroadcastsTakeTurns]_vars

\* A handler is in the middle of its broadcast while another member of the
\* same Room waits for the Room's Mutex with a message of its own.
C15_Witness ==
    \E c, d \in Conns :
        /\ c # d /\ room[c] = room[d]
        /\ Broadcasting(c) /\ todo[c] # {} /\ todo[c] # Clients[room[c]]
        /\ pc[d] = "bc_lock"

(***************************************************************************)
(* C16.  No handler holds roomsMutex while it holds the Mutex of a Room.   *)
(* src/unnamed/part_004 (and part_003) refute it: their teardown locks     *)
(* roomsMutex and deletes the registry entry before it unlocks room.Mutex. *)
(***************************************************************************)
C16_RegistryLockOutsideRoomLock ==
    \A c \in Conns :
        roomsMutex = c => \A x \in RoomObjs : Mutex[x] # c

(***************************************************************************)
(* C17.  While a broadcast of room r has members still to visit (it holds  *)
(* r's Room lock, and may be stalled on a blocked peer), every handler of  *)
(* another room id is free of it: either its next step is possible, or it  *)
(* waits for its own peer to send, or the lock it waits for is held by a   *)
(* handler other than the broadcaster whose own next step is possible.     *)
(* The code refutes it: a join into r that races with the broadcast (C14)  *)
(* can abort the process, and with it the handlers of every other room.    *)
(***************************************************************************)
Stalled(c) == Broadcasting(c) /\ todo[c] # {}

Active(d) == pc[d] \notin {"idle", "refused", "done"}

\* h holds the lock d is waiting for.
LockHeldBy(d, h) ==
    \/ pc[d] \in {"join", "td_reglock"} /\ roomsMutex = h
    \/ pc[d] \in {"bc_lock", "td_lock"} /\ Mutex[room[d]] = h

C17_OtherRoomsProceed ==
    \A c, d \in Conns :
        Stalled(c) /\ Active(d) /\ roomID[d] # roomID[c] =>
            \/ ENABLED Proceed(d)
            \/ pc[d] = "recv" /\ conn[d] = "open"
            \/ \E h \in Conns \ {c, d} : LockHeldBy(d, h) /\ ENABLED Proceed(h)

(***************************************************************************)
(* C19.  Once a connection's handler has returned, its heartbeat goroutine *)
(* eventually returns too.                                                 *)
(* The code refutes it: pingTicker.Stop() does not close pingTicker.C, so  *)
(* a heartbeat goroutine that has not failed a send stays blocked in its   *)
(* `for range` for ever.                                                   *)
(***************************************************************************)
HandlerReturned(c) == pc[c] = "done"

HeartbeatReturned(c) == hb[c] = "done"

C19_HeartbeatEnds ==
    \A c \in Conns : HandlerReturned(c) ~> HeartbeatReturned(c)

(***************************************************************************)
(* C20.  In a handler that takes the room id from the request, a request   *)
(* whose room id is empty is closed by the step that reads it; the         *)
(* registry never has an entry under the empty room id and no client is a  *)
(* member of a Room under it.                                              *)
(* src/unnamed/part_002 (and src/main.go:127-145) refute it: they join     *)
(* whatever room id the request carries.                                   *)
(***************************************************************************)
C20_EmptyRoomRefused ==
    /\ \A c \in Conns :
          io.by = c /\ io.req.kind = "query" /\ io.req.declared = "" =>
              pc[c] = "refused" /\ conn[c] = "down"
    /\ rooms[""] = NoRoom
    /\ \A c \in Conns : Member(c) => roomID[c] # ""

(***************************************************************************)
(* C21.  Every key of the registry is a syntactically valid room id: as    *)
(* long as the ids made by generateID and made of hexadecimal digits only. *)
(* The code refutes it: no handler looks at the room id before it uses it  *)
(* as the key of rooms.                                                    *)
(***************************************************************************)
ValidRoomId(r) == IdShape(r).len = 2 * IdBytes /\ IdShape(r).hex

C21_RegistryKeysValid ==
    \A r \in RoomIds : rooms[r] # NoRoom => ValidRoomId(r)

(***************************************************************************)
(* C22.  The sender of an accepted message is one of the members its       *)
(* broadcast visits: a connected client is a member of its own Room, the   *)
(* loop starts with the sender among the members to visit, and the sender  *)
(* leaves that set only in a step that sends it its own message.           *)
(***************************************************************************)
SenderIsMember ==
    \A c \in Conns : Connected(c) => c \in Clients[room[c]]

SenderIsVisited ==
    \A c \in Conns :
        /\ pc[c] = "bc_lock" /\ pc'[c] = "bc_send" => c \in todo'[c]
        /\ c \in todo[c] /\ c \notin todo'[c] =>
              /\ io'.by = c
              /\ \E f \in io'.out :
                    f.kind = "chat" /\ f.to = c /\ f.from = c /\ f.body = cur[c]

C22_SenderReceivesOwn == [](SenderIsMember) /\ [][SenderIsVisited]_vars

\* A sender has just been sent its own message, in a Room with another member.
C22_Witness ==
    \E c \in Conns :
        /\ io.by = c /\ Broadcasting(c)
        /\ \E f \in io.out : f.kind = "chat" /\ f.to = c /\ f.from = c /\ f.ok
        /\ Cardinality(Clients[room[c]]) > 1

(***************************************************************************)
(* C23.  A step that answers a message with a length-violation or a        *)
(* rate-limit notice leaves the handler at Receive in the same loop, the   *)
(* connection as it was, the client a member of its Room, and the          *)
(* registry, every member set and the heartbeat untouched, whether the     *)
(* send of the notice succeeded or failed.                                 *)
(***************************************************************************)
Notices == {"toolong", "rate"}

Rejects(c) == io'.by = c /\ \E f \in io'.out : f.kind \in Notices

RejectionKeepsClient ==
    \A c \in Conns :
        Rejects(c) =>
            /\ pc[c] = "recv" /\ pc'[c] = "recv"
            /\ conn'[c] = conn[c]
            /\ room'[c] = room[c] /\ c \in Clients'[room'[c]]
            /\ Clients' = Clients /\ rooms' = rooms
            /\ hb' = hb /\ leaves' = leaves

C23_RejectionKeepsClient == [][RejectionKeepsClient]_vars

\* The send of a rate-limit notice has just failed; the client is still a
\* member, its connection open and its handler at Receive.
C23_Witness ==
    \E c \in Conns :
        /\ io.by = c
        /\ \E f \in io.out : f.kind = "rate" /\ ~f.ok
        /\ pc[c] = "recv" /\ conn[c] = "open"
        /\ c \in Clients[room[c]] /\ rooms[roomID[c]] = room[c]

(***************************************************************************)
(* C24.  A step that handles a message which is empty after trimming,      *)
(* longer than 160, or arrives while its client is muted changes no        *)
(* client's lastMessageTime or mutedUntil; and a client's lastMessageTime  *)
(* changes only in the step that sends its message on to the broadcast,    *)
(* to the arrival time of that message.                                    *)
(***************************************************************************)
LimiterUntouched ==
    \A c \in Conns :
        /\ /\ Handles(c)
           /\ \/ MsgLen(TrimSpace(io'.in)) = 0
              \/ MsgLen(TrimSpace(io'.in)) > maxMessageLength
              \/ now' < mutedUntil[c]
           => lastMessageTime' = lastMessageTime /\ mutedUntil' = mutedUntil
        /\ lastMessageTime'[c] # lastMessageTime[c] =>
              /\ Handles(c)
              /\ pc[c] = "recv" /\ pc'[c] = "bc_lock"
              /\ lastMessageTime'[c] = now'

C24_RejectedLeavesLimiter == [][LimiterUntouched]_vars

\* A client that has had a message accepted, and was muted once, has just
\* been told that its message is too long.
C24_Witness ==
    \E c \in Conns :
        /\ io.by = c /\ MsgLen(TrimSpace(io.in)) > maxMessageLength
        /\ \E f \in io.out : f.kind = "toolong"
        /\ lastMessageTime[c] # ZeroTime
        /\ mutedUntil[c] # ZeroTime

(***************************************************************************)
(* C25.  A step of a broadcast (taking the Room lock, one send, releasing  *)
(* the lock) changes no Room's member set, no registry entry and no        *)
(* connection; the member a send has just failed for is still a member of  *)
(* the sender's Room.                                                      *)
(***************************************************************************)
BroadcastStep(c) ==
    /\ pc[c] \in {"bc_lock", "bc_send"}
    /\ \/ pc'[c] # pc[c]
       \/ todo'[c] # todo[c] /\ todo'[c] \subseteq todo[c]

BroadcastKeepsMembers ==
    \A c \in Conns :
        BroadcastStep(c) =>
            /\ Clients' = Clients
            /\ rooms' = rooms
            /\ conn' = conn
            /\ \A f \in io'.out : f.to \in Clients'[room[c]]

C25_BroadcastKeepsMembers == [][BroadcastKeepsMembers]_vars

\* A send to another member has just failed; that member's handler is still
\* at Receive, and the member is still in its registered Room.
C25_Witness ==
    \E c \in Conns : \E f \in io.out :
        /\ io.by = c /\ f.kind = "chat" /\ ~f.ok
        /\ f.to # c /\ pc[f.to] = "recv"
        /\ f.to \in Clients[room[c]]
        /\ rooms[roomID[f.to]] = room[c]

(***************************************************************************)
(* C26.  A step of one client's termination (the break out of the receive  *)
(* loop and each step of the deferred teardown) takes nobody but that      *)
(* client out of a member set, adds nobody, closes no other connection     *)
(* and moves no other handler.                                             *)
(***************************************************************************)
TerminationStep(c) ==
    /\ pc'[c] # pc[c]
    /\ pc'[c] \in {"td_lock", "td_leave", "td_reglock", "td_regdel", "td_close", "done"}
    /\ room[c] # NoRoom

TerminationIsLocal ==
    \A c \in Conns :
        TerminationStep(c) =>
            /\ \A x \in RoomObjs : /\ Clients'[x] \subseteq Clients[x]
                                   /\ Clients[x] \ {c} \subseteq Clients'[x]
            /\ \A d \in Conns \ {c} : /\ conn'[d] = conn[d]
                                       /\ pc'[d] = pc[d]
                                       /\ room'[d] = room[d]

C26_TerminationIsLocal == [][TerminationIsLocal]_vars

\* One client has left and returned; another client of the same room id, whose
\* Room had both as members, is still connected, a member and at Receive.
C26_Witness ==
    \E c \in Conns : \E d \in Conns \ {c} :
        /\ pc[c] = "done" /\ leaves[c].left = 1 /\ leaves[c].released = 0
        /\ pc[d] = "recv" /\ conn[d] = "open" /\ room[d] # NoRoom
        /\ roomID[d] = roomID[c] /\ rooms[roomID[d]] = room[d]
        /\ d \in Clients[room[d]] /\ c \notin Clients[room[d]]

(***************************************************************************)
(* C27.  Every length or rate-limit notice goes to one client only: the    *)
(* client whose handler has just received the message that caused it (a    *)
(* message longer than 160 after trimming, or one that came less than 750  *)
(* ms after that client's last accepted message).                          *)
(***************************************************************************)
NoticeToCauser ==
    \A f \in io'.out :
        f.kind \in Notices =>
            /\ f.to = io'.by
            /\ io'.out = {f}
            /\ Handles(f.to) /\ pc[f.to] = "recv"
            /\ f.kind = "toolong" => MsgLen(TrimSpace(io'.in)) > maxMessageLength
            /\ f.kind = "rate" =>
                  /\ lastMessageTime[f.to] # ZeroTime
                  /\ now' - lastMessageTime[f.to] < minMessageInterval

C27_NoticeToCauser == [][NoticeToCauser]_vars

\* A notice has been delivered to its causer while another client is a member
\* of the same Room, connected and at Receive.
C27_Witness ==
    \E c \in Conns : \E d \in Conns \ {c} : \E f \in io.out :
        /\ io.by = c /\ f.kind \in Notices /\ f.ok /\ f.to = c
        /\ room[d] = room[c] /\ {c, d} \subseteq Clients[room[c]]
        /\ pc[d] = "recv" /\ conn[d] = "open"

(***************************************************************************)
(* C28.  Whenever a registry entry maps to a Room with no members, the     *)
(* handler that removed the Room's last member stands between that         *)
(* removal and its own delete of the entry; so when no teardown is in      *)
(* progress, no entry maps to a Room with no members.                      *)
(***************************************************************************)
EmptyRegistered(r) == rooms[r] # NoRoom /\ Clients[rooms[r]] = {}

Emptier(c, r) ==
    /\ pc[c] \in {"td_reglock", "td_regdel"}
    /\ roomID[c] = r /\ room[c] = rooms[r]
    /\ isEmpty[c]

C28_NoEmptyRoomPersists ==
    \A r \in RoomIds : EmptyRegistered(r) => \E c \in Conns : Emptier(c, r)

\* A Room with no members is registered and the handler that emptied it holds
\* the registry lock, about to delete the entry.
C28_Witness ==
    \E r \in RoomIds : \E c \in Conns :
        EmptyRegistered(r) /\ Emptier(c, r) /\ pc[c] = "td_regdel" /\ roomsMutex = c

(***************************************************************************)
(* C29.  Every chat message is sent only to clients that connected under   *)
(* the room id its sender connected under.                                 *)
(***************************************************************************)
ChatStaysInRoomId ==
    \A f \in io'.out :
        f.kind = "chat" => roomID[f.to] = roomID[f.from]

C29_NoCrossRoomDelivery == [][ChatStaysInRoomId]_vars

\* A chat message has been delivered to another client of the sender's room id
\* while a client of a different room id is a member of its own Room.
C29_Witness ==
    \E f \in io.out : \E e \in Conns :
        /\ f.kind = "chat" /\ f.ok /\ f.to # f.from
        /\ roomID[f.to] = roomID[f.from]
        /\ roomID[e] # roomID[f.from]
        /\ pc[e] = "recv" /\ conn[e] = "open" /\ e \in Clients[room[e]]

(***************************************************************************)
(* C30.  The text of an accepted message is fixed when it is accepted, as  *)
(* the sender's name, ": " and the received message after trimming; it     *)
(* does not change during the broadcast; and every frame of the broadcast  *)
(* carries that sender's name and that body.                               *)
(***************************************************************************)
DeliveredText ==
    /\ \A c \in Conns :
          /\ pc[c] = "recv" /\ pc'[c] = "bc_lock" =>
                /\ Handles(c)
                /\ cur'[c] = TrimSpace(io'.in)
                /\ ~cur'[c].none
          /\ pc[c] \in {"bc_lock", "bc_send"} /\ pc'[c] = "bc_send" =>
                cur'[c] = cur[c]
    /\ \A f \in io'.out :
          f.kind = "chat" =>
              /\ f.from = io'.by
              /\ pc[f.from] = "bc_send"
              /\ f.body = cur[f.from]

C30_DeliveredText == [][DeliveredText]_vars

\* The message that arrived with white space around 160 characters has been
\* delivered to another member without it.
C30_Witness ==
    \E f \in io.out :
        /\ f.kind = "chat" /\ f.ok /\ f.to # f.from
        /\ f.body = Text(0, maxMessageLength)
        /\ cur[f.from] = f.body

(***************************************************************************)
(* C31.  The step that handles a message which is empty after trimming     *)
(* sends no frame to anybody, starts no broadcast, leaves the handler at   *)
(* Receive and closes no connection.                                       *)
(***************************************************************************)
EmptyIsSilent ==
    \A c \in Conns :
        Handles(c) /\ MsgLen(TrimSpace(io'.in)) = 0 =>
            /\ io'.out = {}
            /\ pc[c] = "recv" /\ pc' = pc
            /\ cur' = cur /\ todo' = todo
            /\ conn' = conn
            /\ Clients' = Clients /\ rooms' = rooms

C31_EmptyDiscarded == [][EmptyIsSilent]_vars

\* A message of white space only has just been handled in a Room with another
\* member: no frame, sender still connected, a member and at Receive.
C31_Witness ==
    \E c \in Conns : \E d \in Conns \ {c} :
        /\ io.by = c /\ ~io.in.none /\ io.in.pad > 0
        /\ MsgLen(TrimSpace(io.in)) = 0
        /\ io.out = {}
        /\ pc[c] = "recv" /\ conn[c] = "open"
        /\ room[d] = room[c] /\ {c, d} \subseteq Clients[room[c]]

(***************************************************************************)
(* C32.  While the process runs, every handler that is not waiting for its *)
(* peer to send can take its next step, or waits for a lock whose holder   *)
(* can take its next step, or whose holder waits for a lock whose holder   *)
(* can: no handler waits in a cycle or for a lock that is never released.  *)
(* A send always returns (BcastSend is possible for every member left to   *)
(* visit, with or without an error).                                       *)
(***************************************************************************)
CanRun(h) == ENABLED Proceed(h)

C32_NoLockDeadlock ==
    ~crashed =>
        \A d \in Conns :
            Active(d) /\ pc[d] # "recv" =>
                \/ CanRun(d)
                \/ \E h \in Conns \ {d} :
                      /\ LockHeldBy(d, h)
                      /\ \/ CanRun(h)
                         \/ \E g \in Conns \ {d, h} : LockHeldBy(h, g) /\ CanRun(g)

\* In the handler whose teardown nests the locks: one handler waits for the
\* Room lock, held by a teardown that waits for the registry lock, held by a
\* join.
C32_Witness ==
    \E d, h, g \in Conns :
        /\ NestedTeardown /\ ~crashed
        /\ pc[d] \in {"bc_lock", "td_lock"} /\ Mutex[room[d]] = h
        /\ pc[h] = "td_reglock" /\ roomsMutex = g
        /\ pc[g] = "joining"

(***************************************************************************)
(* C33.  In the token-gated handler the outcome of a connection request is *)
(* a function of its credential only, whatever room id it declares: a      *)
(* request with a valid credential is admitted under the room id of the    *)
(* credential, that id stays the handler's room id, and the join puts the  *)
(* client into the Room registered under that id (the one found, or the    *)
(* one it creates).                                                        *)
(***************************************************************************)
CredentialDecides ==
    \A c \in Conns :
        /\ io'.by = c /\ io'.req.kind = "valid" =>
              /\ pc[c] = "idle" /\ pc'[c] = "join"
              /\ roomID'[c] = io'.req.claimed
        /\ pc[c] # "idle" => roomID'[c] = roomID[c]
        /\ pc[c] = "joining" /\ pc'[c] = "recv" =>
              /\ room'[c] = rooms'[roomID[c]]
              /\ c \in Clients'[room'[c]]
              /\ rooms[roomID[c]] # NoRoom => room'[c] = rooms[roomID[c]]

C33_CredentialDecidesRoom == [][CredentialDecides]_vars

\* A request with a valid credential for one room id that declares another
\* has just been admitted under the credential's id, while the first
\* connection, whose credential and declaration name that id, is a member of
\* the Room registered under it.
C33_Witness ==
    \E c \in Conns \ {1} :
        /\ variant = "jwt"
        /\ io.by = c /\ io.req.kind = "valid" /\ io.req.declared # io.req.claimed
        /\ pc[c] = "join" /\ roomID[c] = io.req.claimed
        /\ roomID[1] = roomID[c] /\ pc[1] = "recv"
        /\ rooms[roomID[c]] = room[1] /\ 1 \in Clients[room[1]]

(***************************************************************************)
(* C34.  Members are connections, whatever credential they came with (the  *)
(* user id and display name of a token are read by no branch of the        *)
(* handler, so two connections of one room id stand for two connections    *)
(* with the same credential as well).  A join keeps every member the Room  *)
(* has; the leave step of a teardown removes its own connection only, and  *)
(* when a member remains that teardown goes on to close its connection     *)
(* without touching the registry; a broadcast visits every member.         *)
(***************************************************************************)
SameCredentialTwoMembers ==
    \A c \in Conns :
        /\ pc[c] = "joining" /\ pc'[c] = "recv" =>
              /\ \A x \in RoomObjs : Clients[x] \subseteq Clients'[x]
              /\ c \in Clients'[room'[c]]
        /\ pc[c] = "td_leave" /\ pc'[c] # "td_leave" =>
              /\ Clients' = [Clients EXCEPT ![room[c]] = @ \ {c}]
              /\ rooms' = rooms
              /\ Clients'[room[c]] # {} => pc'[c] = "td_close"
        /\ pc[c] = "td_close" /\ pc'[c] # "td_close" =>
              /\ pc'[c] = "done"
              /\ rooms' = rooms /\ Clients' = Clients
              /\ \A d \in Conns \ {c} : conn'[d] = conn[d]
        /\ pc[c] = "bc_lock" /\ pc'[c] = "bc_send" =>
              todo'[c] = Clients[room[c]]

C34_SameCredentialTwoMembers == [][SameCredentialTwoMembers]_vars

\* One of two connections of a room id has left and returned without
\* deleting the registry entry; the other is still a member of the
\* registered Room and has just been sent a chat message.
C34_Witness ==
    \E c \in Conns : \E d \in Conns \ {c} : \E f \in io.out :
        /\ pc[c] = "done" /\ leaves[c].left = 1 /\ leaves[c].released = 0
        /\ roomID[d] = roomID[c] /\ room[d] # NoRoom
        /\ d \in Clients[room[d]] /\ rooms[roomID[d]] = room[d]
        /\ f.kind = "chat" /\ f.to = d /\ f.ok

(***************************************************************************)
(* C35.  The limiter's comparisons are strict.  A message that is not      *)
(* empty and within the cap after trimming goes to the broadcast, with no  *)
(* notice and no change of mutedUntil, when it comes from an unmuted       *)
(* client exactly 750 ms after the client's last broadcast message, and    *)
(* when the client has no previous timestamp.  A message that arrives      *)
(* exactly at the client's mutedUntil is not dropped as muted: it goes to  *)
(* the broadcast too, unless it comes less than 750 ms after a message     *)
(* broadcast at that same instant, which the rate test answers.            *)
(***************************************************************************)
Accepted(c) ==
    /\ pc'[c] = "bc_lock"
    /\ cur'[c] = TrimSpace(io'.in)
    /\ io'.out = {}
    /\ mutedUntil' = mutedUntil
    /\ lastMessageTime'[c] = now'

\* Not dropped as muted: answered by the rate test that follows the mute test.
RateNoticed(c) ==
    /\ pc'[c] = "recv"
    /\ \E f \in io'.out : f.kind = "rate" /\ f.to = c
    /\ mutedUntil'[c] = now' + muteDuration

StrictComparisons ==
    \A c \in Conns :
        Handles(c) /\ Sendable(io'.in) =>
            /\ /\ ~(now' < mutedUntil[c])
               /\ lastMessageTime[c] # ZeroTime
               /\ now' - lastMessageTime[c] = minMessageInterval
               => Accepted(c)
            /\ mutedUntil[c] # ZeroTime /\ now' = mutedUntil[c] =>
                  IF now' - lastMessageTime[c] < minMessageInterval
                  THEN RateNoticed(c)
                  ELSE Accepted(c)
            /\ lastMessageTime[c] = ZeroTime => Accepted(c)

C35_StrictComparisons == [][StrictComparisons]_vars

\* A message that arrived exactly at its client's mutedUntil has gone to the
\* broadcast.
C35_Witness ==
    \E c \in Conns :
        /\ io.by = c /\ Sendable(io.in)
        /\ mutedUntil[c] # ZeroTime /\ now = mutedUntil[c]
        /\ lastMessageTime[c] = now
        /\ pc[c] = "bc_lock" /\ cur[c] = TrimSpace(io.in)

=============================================================================
